---- MODULE Spec2Model ----
(***************************************************************************)
(* HomeKitty: the mapped-device handle (src/lib/mapped-device.js) and the  *)
(* exposure ledger (StorageBackedMap, src/unnamed/part_000).               *)
(*                                                                         *)
(* Conventions.                                                            *)
(*  - A capability identifier is the sequence of its '.'-separated parts:  *)
(*    "dim" is <<"dim">>, "dim.1" is <<"dim", "1">>.                       *)
(*  - Device values are thousandths (0.4 is 400), characteristic values    *)
(*    are the integers HomeKit sees (Brightness 40).                       *)
(*  - JavaScript's undefined and the mapper's NO_VALUE sentinel are the    *)
(*    negative integers Undefined and NO_VALUE, which no value equals.     *)
(*  - Time is a clock `now` in ticks of 100 ms.                            *)
(***************************************************************************)
EXTENDS Integers, Sequences, FiniteSets, TLC

\* ------------------------------------------------------------------ bounds
MaxTime   == 3   \* the clock stops advancing here
MaxInputs == 2   \* device updates plus HomeKit write requests
MaxSinkCalls == 3   \* calls of the ledger's persistence sink
MaxEvents == 3   \* device.update and device.delete events delivered to the app
MaxVisible == 3   \* visible identifiers of a device in the grouper

\* ------------------------------------------------------------- JS values
Undefined == -1
NO_VALUE  == -2
None      == "none"   \* an absent getter / setter / handler

RawValues   == {400, 1200}   \* device values an update may carry (0.4, 1.2)
WriteValues == {75}          \* values HomeKit may write (Brightness 75)

Min(a, b) == IF a < b THEN a ELSE b
Max(a, b) == IF a > b THEN a ELSE b

\* ------------------------------------------------- getters, setters, clamp
\* The map catalog's accessors: v => Math.round(v * 100), the same returning
\* a promise, a one-way getter that always answers NO_VALUE, and one that
\* answers per characteristic.
Getter(kind, raw, ctype) ==
  CASE kind = "pct"      -> (raw + 5) \div 10
    [] kind = "pctAsync" -> (raw + 5) \div 10
    [] kind = "oneway"   -> NO_VALUE
    [] kind = "split"  -> IF ctype = "Brightness" THEN (raw + 5) \div 10 ELSE NO_VALUE
    [] OTHER           -> Undefined

\* v => v / 100, in thousandths.
Setter(kind, value) ==
  CASE kind = "div100" -> value * 10
    [] OTHER           -> Undefined

\* characteristic.validateUserInput: clamp into the characteristic's range.
Validate(ctype, v) ==
  CASE ctype = "Brightness"       -> Max(0, Min(100, v))
    [] ctype = "ColorTemperature" -> Max(140, Min(500, v))
    [] OTHER                      -> v

\* --------------------------------------------------------- sequence helpers
Range(s) == { s[i] : i \in DOMAIN s }

\* index of the entry with this key, 0 when there is none
RECURSIVE KeyIndexFrom(_, _, _)
KeyIndexFrom(entries, key, i) ==
  IF i > Len(entries) THEN 0
  ELSE IF entries[i].key = key THEN i ELSE KeyIndexFrom(entries, key, i + 1)

KeyIndex(entries, key) == KeyIndexFrom(entries, key, 1)

\* ------------------------------------------------------- capability grouper
\* Object.entries order of a JS object: integer-like keys ascending first,
\* then the other keys in insertion order.
IndexKeys == <<"0", "1", "2", "3">>
IsIndexKey(k) == k \in Range(IndexKeys)
KeyNum(k) == CHOOSE i \in DOMAIN IndexKeys : IndexKeys[i] = k

RECURSIVE InsertByNum(_, _)
InsertByNum(sorted, e) ==
  IF sorted = <<>> THEN <<e>>
  ELSE IF KeyNum(e.key) < KeyNum(Head(sorted).key) THEN <<e>> \o sorted
  ELSE <<Head(sorted)>> \o InsertByNum(Tail(sorted), e)

RECURSIVE SortByNum(_)
SortByNum(s) == IF s = <<>> THEN <<>> ELSE InsertByNum(SortByNum(Tail(s)), Head(s))

\* entries: a sequence of [key, caps] in insertion order, as a JS object lists them
ObjectEntries(entries) ==
  SortByNum(SelectSeq(entries, LAMBDA e : IsIndexKey(e.key)))
    \o SelectSeq(entries, LAMBDA e : ~IsIndexKey(e.key))

\* acc[group].push(capability), creating acc[group] when missing
PushTo(out, group, capability) ==
  LET i == KeyIndex(out, group) IN
  IF i = 0 THEN Append(out, [key |-> group, caps |-> <<capability>>])
  ELSE [out EXCEPT ![i].caps = Append(@, capability)]

\* const [ capability, group = '' ] = cap.split('.')
SplitBase(cap)  == cap[1]
SplitGroup(cap) == IF Len(cap) >= 2 THEN cap[2] ELSE ""

RECURSIVE ReduceCaps(_, _)
ReduceCaps(out, caps) ==
  IF caps = <<>> THEN out
  ELSE ReduceCaps(PushTo(out, SplitGroup(Head(caps)), SplitBase(Head(caps))), Tail(caps))

groupCapabilities(visible) == ObjectEntries(ReduceCaps(<<>>, visible))

\* Array.prototype.sort((a, b) => a.length - b.length): stable
RECURSIVE InsertByLen(_, _)
InsertByLen(sorted, e) ==
  IF sorted = <<>> THEN <<e>>
  ELSE IF Len(e.key) < Len(Head(sorted).key) THEN <<e>> \o sorted
  ELSE <<Head(sorted)>> \o InsertByLen(Tail(sorted), e)

\* group names left in the order of Object.keys
SortByLenSkipped(s) == s

RECURSIVE SortByLen(_)
SortByLen(s) ==
  IF s = <<>> THEN <<>>
  ELSE LET n == Len(s) IN InsertByLen(SortByLen(SubSeq(s, 1, n - 1)), s[n])

\* a filter that keeps what an earlier group has, not what it lacks
RECURSIVE FlattenReduceInverted(_, _, _)
FlattenReduceInverted(out, seen, groups) ==
  IF groups = <<>> THEN out
  ELSE LET g    == Head(groups)
           kept == SelectSeq(g.caps, LAMBDA c : c \in seen)
       IN FlattenReduceInverted(Append(out, [key |-> g.key, caps |-> kept]),
                                seen \cup Range(g.caps), Tail(groups))

RECURSIVE FlattenReduce(_, _, _)
FlattenReduce(out, seen, groups) ==
  IF groups = <<>> THEN out
  ELSE LET g    == Head(groups)
           kept == SelectSeq(g.caps, LAMBDA c : c \notin seen)
       IN FlattenReduce(Append(out, [key |-> g.key, caps |-> kept]),
                        seen \cup Range(g.caps), Tail(groups))

flattenGroups(groups) == ObjectEntries(FlattenReduce(<<>>, {}, SortByLen(groups)))

\* ------------------------------------------------ maps, bindings, devices
NoBindings == [p \in {} |-> <<>>]

\* a characteristic binding; get and set hold zero, one or two variants
Binding(chars, get, set, deb) ==
  [characteristics |-> chars, get |-> get, set |-> set, debounce |-> deb]

CapabilityMap(name, group, service, required, optional, triggers, hooks, al) ==
  [name |-> name, group |-> group, service |-> service, required |-> required,
   optional |-> optional, triggers |-> triggers, onService |-> hooks,
   onUpdate |-> hooks, adaptiveLighting |-> al]

\* map.required?.[prefix] || map.optional?.[prefix] || map.triggers?.[prefix]
characteristicMaps(map, prefix) ==
  IF prefix \in DOMAIN map.required THEN map.required[prefix]
  ELSE IF prefix \in DOMAIN map.optional THEN map.optional[prefix]
  ELSE IF prefix \in DOMAIN map.triggers THEN map.triggers[prefix]
  ELSE <<>>

HasCharacteristicMaps(map, prefix) ==
  prefix \in (DOMAIN map.required) \cup (DOMAIN map.optional) \cup (DOMAIN map.triggers)

\* !!map.triggers?.[prefix]
isTrigger(map, prefix) == prefix \in DOMAIN map.triggers

\* characteristicMap.debounce || 0
debounceTimeout(cm) == cm.debounce

\* the polarity of the ternary the other way round
debounceImmediateInverted(cm) == cm.debounce # 0

\* characteristicMap.debounce ? false : true
debounceImmediate(cm) == cm.debounce = 0

\* getters[ device.capabilities.includes(capability) ? 0 : 1 ]
PickVariant(variants, device, capability) ==
  LET i == IF capability \in device.capabilities THEN 1 ELSE 2 IN
  IF i <= Len(variants) THEN variants[i] ELSE None

\* `${ prefix }${ group ? '.' + group : '' }`
CapabilityName(prefix, group) == IF group = "" THEN <<prefix>> ELSE <<prefix, group>>

\* ------------------------------------------------------ accessory contents
\* The binder's state: what accessorize() has built so far.
\*   services : [type, subtype, hooks]           hooks = onService calls
\*   chars    : [svc, ctype, value, onGet, onSet, changeN]
\*              onGet = binding that reads, onSet = debounced writer (0: none)
\*   bindings : [capability, chars, getter, setter, trigger, deb]
\*   debs     : the debounced functions, see `debounce`
\*   subs     : [capability, deb, destroyed]     makeCapabilityInstance results
\*   listeners: #listeners, indices into subs
EmptyAccessory ==
  [services  |-> <<[type |-> "AccessoryInformation", subtype |-> "", hooks |-> 0]>>,
   chars     |-> <<>>, bindings |-> <<>>, debs |-> <<>>, subs |-> <<>>,
   listeners |-> <<>>, controllers |-> 0, alErrors |-> 0, threw |-> FALSE]

\* accessory.getService(type): the first service of that type, 0 when none
RECURSIVE ServiceFrom(_, _, _)
ServiceFrom(services, type, i) ==
  IF i > Len(services) THEN 0
  ELSE IF services[i].type = type THEN i ELSE ServiceFrom(services, type, i + 1)

getService(st, type) == ServiceFrom(st.services, type, 1)

\* accessory.addService(type, name, subtype): throws on a service of the same
\* type and subtype
CanAddService(st, type, subtype) ==
  \A i \in DOMAIN st.services :
    ~(st.services[i].type = type /\ st.services[i].subtype = subtype)

addService(st, type, subtype) ==
  [st EXCEPT !.services = Append(@, [type |-> type, subtype |-> subtype, hooks |-> 0])]

\* service.getCharacteristic(klass): the service's characteristic of that
\* type, added with its default value when the service has none
RECURSIVE CharFrom(_, _, _, _)
CharFrom(chars, svc, ctype, i) ==
  IF i > Len(chars) THEN 0
  ELSE IF chars[i].svc = svc /\ chars[i].ctype = ctype THEN i
  ELSE CharFrom(chars, svc, ctype, i + 1)

CharIndex(st, svc, ctype) == CharFrom(st.chars, svc, ctype, 1)

getCharacteristic(st, svc, ctype) ==
  IF CharIndex(st, svc, ctype) # 0 THEN st
  ELSE [st EXCEPT !.chars = Append(@, [svc |-> svc, ctype |-> ctype,
                                       value |-> Validate(ctype, 0),
                                       onGet |-> 0, onSet |-> 0, changeN |-> 0])]

\* debounce(fn, wait, immediate): the state of one debounced function.
\*   timer/due: the pending setTimeout(later), stamp: Date.now() of the last
\*   call, args: its argument; firedSince counts the invocations of fn since
\*   the last call, pending the calls since the last invocation of fn.
debounce(kind, b, c, wait, immediate) ==
  [kind |-> kind, b |-> b, c |-> c, wait |-> wait, immediate |-> immediate,
   timer |-> FALSE, due |-> 0, stamp |-> 0, args |-> Undefined,
   firedSince |-> 0, pending |-> 0]

\* this.#listeners.push(device.makeCapabilityInstance(capability, ...))
PushListener(listeners, sub) == Append(listeners, sub)

\* one characteristic of a binding: the change hook, the read handler and
\* the debounced write handler
RECURSIVE BindCharacteristics(_, _, _, _, _)
BindCharacteristics(st, map, svc, b, klasses) ==
  IF klasses = <<>> THEN st
  ELSE
    LET klass == Head(klasses)
        s1 == getCharacteristic(st, svc, klass)
        c  == CharIndex(s1, svc, klass)
        bd == s1.bindings[b]
        s2 == IF map.onUpdate THEN [s1 EXCEPT !.chars[c].changeN = @ + 1] ELSE s1
        s3 == IF ~bd.trigger /\ bd.getter # None
              THEN [s2 EXCEPT !.chars[c].onGet = b] ELSE s2
        s4 == IF ~bd.trigger /\ bd.setter # None
              THEN [s3 EXCEPT
                      !.debs = Append(@, debounce("write", b, c, bd.wait, bd.immediate)),
                      !.chars[c].onSet = Len(s3.debs) + 1]
              ELSE s3
        s5 == [s4 EXCEPT !.bindings[b].chars = Append(@, c)]
    IN BindCharacteristics(s5, map, svc, b, Tail(klasses))

\* one characteristicMap of a capability: its characteristics, then the
\* debounced subscription to the capability's updates
BindCharacteristicMap(st, map, svc, device, capability, trig, cm) ==
  LET b  == Len(st.bindings) + 1
      bd == [capability |-> capability, chars |-> <<>>,
             getter    |-> PickVariant(cm.get, device, capability),
             setter    |-> PickVariant(cm.set, device, capability),
             trigger   |-> trig,
             wait      |-> debounceTimeout(cm),
             immediate |-> debounceImmediate(cm),
             deb |-> 0, sub |-> 0]
      s1 == BindCharacteristics([st EXCEPT !.bindings = Append(@, bd)],
                                map, svc, b, cm.characteristics)
      d  == Len(s1.debs) + 1
      u  == Len(s1.subs) + 1
  IN [s1 EXCEPT
        !.debs = Append(@, debounce("update", b, 0, bd.wait, bd.immediate)),
        !.subs = Append(@, [capability |-> capability, deb |-> d, destroyed |-> FALSE]),
        !.listeners = PushListener(@, u),
        !.bindings[b].deb = d,
        !.bindings[b].sub = u]

RECURSIVE BindCharacteristicMaps(_, _, _, _, _, _, _)
BindCharacteristicMaps(st, map, svc, device, capability, trig, cms) ==
  IF cms = <<>> THEN st
  ELSE BindCharacteristicMaps(
         BindCharacteristicMap(st, map, svc, device, capability, trig, Head(cms)),
         map, svc, device, capability, trig, Tail(cms))

\* "create or retrieve service", then the onService hook
ResolveService(st, map, group) ==
  LET found   == getService(st, map.service)
      subtype == IF group = "" THEN "default" ELSE group
      fresh   == found = 0 \/ map.group
  IN IF fresh /\ ~CanAddService(st, map.service, subtype)
     THEN [st |-> [st EXCEPT !.threw = TRUE], svc |-> 0]
     ELSE
       LET s1  == IF fresh THEN addService(st, map.service, subtype) ELSE st
           svc == IF fresh THEN Len(s1.services) ELSE found
           s2  == IF map.onService
                  THEN [s1 EXCEPT !.services[svc].hooks = @ + 1] ELSE s1
       IN [st |-> s2, svc |-> svc]

\* for (const prefix of capabilities) { ... }: answers the state and the
\* group's service (0 when no capability of the group was bound)
RECURSIVE BindPrefixes(_, _, _, _, _, _)
BindPrefixes(st, map, group, prefixes, svc, device) ==
  IF st.threw \/ prefixes = <<>> THEN [st |-> st, svc |-> svc]
  ELSE
    LET prefix == Head(prefixes) IN
    IF ~HasCharacteristicMaps(map, prefix)
    THEN BindPrefixes(st, map, group, Tail(prefixes), svc, device)
    ELSE
      LET r == IF svc = 0 THEN ResolveService(st, map, group)
               ELSE [st |-> st, svc |-> svc]
      IN IF r.st.threw THEN r
         ELSE BindPrefixes(
                BindCharacteristicMaps(r.st, map, r.svc, device,
                                       CapabilityName(prefix, group),
                                       isTrigger(map, prefix),
                                       characteristicMaps(map, prefix)),
                map, group, Tail(prefixes), r.svc, device)

\* the Adaptive Lighting block: both characteristics are fetched (and so
\* added), the controller is configured unless the accessory has one, in
\* which case configureController throws and the error is logged
AdaptiveLighting(st, map, svc) ==
  IF ~(map.adaptiveLighting /\ svc # 0) THEN st
  ELSE
    LET s1 == getCharacteristic(getCharacteristic(st, svc, "Brightness"),
                                svc, "ColorTemperature")
    IN IF s1.controllers = 0 THEN [s1 EXCEPT !.controllers = 1]
       ELSE [s1 EXCEPT !.alErrors = @ + 1]

RECURSIVE BindGroups(_, _, _, _)
BindGroups(st, map, entries, device) ==
  IF st.threw \/ entries = <<>> THEN st
  ELSE
    LET r == BindPrefixes(st, map, Head(entries).key, Head(entries).caps, 0, device)
    IN IF r.st.threw THEN r.st
       ELSE BindGroups(AdaptiveLighting(r.st, map, r.svc), map, Tail(entries), device)

RECURSIVE BindMaps(_, _, _, _)
BindMaps(st, maps, groups, device) ==
  IF st.threw \/ maps = <<>> THEN st
  ELSE BindMaps(
         BindGroups(st, Head(maps),
                    IF Head(maps).group THEN groups ELSE flattenGroups(groups),
                    device),
         Tail(maps), groups, device)

\* the body of accessorize() past the shortcut; #listeners and what hangs on
\* it belong to the handle and outlive the accessory
BuildAccessory(device, maps, held) ==
  BindMaps([EmptyAccessory EXCEPT !.bindings = held.bindings, !.debs = held.debs,
                                  !.subs = held.subs, !.listeners = held.listeners],
           maps, groupCapabilities(device.visible), device)

\* ---------------------------------------------------------------- scenarios
Device(capabilities, visible) == [capabilities |-> capabilities, visible |-> visible]

Dim == <<"dim">>

\* the light map of the spec's scenarios: dim -> Brightness
LightMap(group, chars, get, set, deb, hooks, al) ==
  CapabilityMap("light", group, "Lightbulb",
                "dim" :> <<Binding(chars, get, set, deb)>>,
                NoBindings, NoBindings, hooks, al)

\* a second map on the same device: dim triggers a sensor characteristic
SensorMap ==
  CapabilityMap("sensor", FALSE, "LightSensor", NoBindings, NoBindings,
                "dim" :> <<Binding(<<"Brightness">>, <<"pct">>, <<>>, 0)>>,
                FALSE, FALSE)

\* value: what capabilitiesObj holds for every capability at the start
Scenario(device, maps, value) == [device |-> device, maps |-> maps, value |-> value]

Scenarios ==
  \* one capability, one characteristic; debounce unspecified or 200 ms
  { Scenario(Device({Dim}, <<Dim>>),
             <<LightMap(FALSE, <<"Brightness">>, <<g>>, <<"div100">>, d, FALSE, FALSE)>>,
             IF g = "pct" THEN 400 ELSE Undefined)
      : d \in {0, 2}, g \in {"pct", "pctAsync"} }
  \cup
  \* a one-way getter, a binding without getter, a binding without setter
  { Scenario(Device({Dim}, <<Dim>>),
             <<LightMap(FALSE, <<"Brightness">>, gs[1], gs[2], 0, FALSE, FALSE)>>, 400)
      : gs \in { <<<<"oneway">>, <<"div100">>>>, <<<<>>, <<"div100">>>>,
                 <<<<"pct">>, <<>>>> } }
  \cup
  \* two characteristics on one binding, the getter answering per characteristic
  { Scenario(Device({Dim}, <<Dim>>),
             <<LightMap(FALSE, <<"Brightness", "ColorTemperature">>, <<"split">>,
                        <<"div100">>, 2, TRUE, FALSE)>>, 400) }
  \cup
  \* a grouped map: dim and dim.1 get a service each; adaptive lighting
  { Scenario(Device({Dim, <<"dim", "1">>}, <<Dim, <<"dim", "1">>>>),
             <<LightMap(TRUE, <<"Brightness">>, <<"pct">>, <<"div100">>, 0, TRUE, TRUE)>>,
             Undefined) }
  \cup
  \* two maps on one device; onoff is visible and bound by neither
  { Scenario(Device({Dim, <<"onoff">>}, <<<<"onoff">>, Dim>>),
             <<LightMap(FALSE, <<"Brightness">>, <<"pct">>, <<"div100">>, 2, FALSE, FALSE),
               SensorMap>>, 400) }
  \cup
  \* a synonym: dim is visible but not among the device's capabilities, so
  \* the second getter applies and there is no second setter
  { Scenario(Device({<<"onoff">>}, <<Dim>>),
             <<LightMap(FALSE, <<"Brightness">>, <<"oneway", "pct">>, <<"div100">>,
                        0, FALSE, FALSE)>>, 400) }

\* ------------------------------------------------------------------- state
VARIABLES
  scenario,         \* the device and the maps registered on its handle
  accessory,        \* #accessory: 0 is null, else the accessory's identity
  created,          \* accessories constructed so far
  acc,              \* what accessorize() built, with #listeners (EmptyAccessory)
  capabilitiesObj,  \* device.capabilitiesObj: capability -> cached value
  running,          \* async handler invocations suspended at an await, oldest first
  now,              \* the clock
  cleaned,          \* cleanup() has returned
  inputsN,          \* device updates and write requests so far
  delivered,        \* capability -> the raw value of its last device update
  wrote,            \* a HomeKit write request has arrived
  last,             \* the operation that led to this state, and its result
  ledger,           \* StorageBackedMap: the keys it holds and their values
  dirty,            \* StorageBackedMap.#dirty
  stored,           \* what the persistence sink last received (or was loaded)
  sinkCalls,        \* calls of the persistence sink so far
  lastL,            \* the ledger operation that led to this state
  bridge,           \* ids of the accessories on the bridge (bridgedAccessories)
  lastA,            \* the app transaction that led to this state
  visibleIn,        \* grouper: the visible identifiers of a device
  grouped,          \* grouper: groupCapabilities() of them
  flat,             \* grouper: flattenGroups(grouped)
  reflat,           \* grouper: flattenGroups(flat)
  bound,            \* grouper: the capability names accessorize() bound
  built,            \* grouper: the maps of a handle and what accessorize() built
  lastG,            \* grouper: the step that led to this state
  updTimer,         \* watch: the debounced device.update handler's pending call
  inflight,         \* watch: event handlers suspended at an await
  awaiting,         \* watch: ready devices with an update event not yet handled
  deleted,          \* watch: devices deleted, with no update event since
  eventsN           \* watch: events delivered so far

handleVars == <<scenario, accessory, created, acc, capabilitiesObj, running, now,
                cleaned, inputsN, delivered, wrote, last>>
grouperVars == <<visibleIn, grouped, flat, reflat, bound, built, lastG>>
watchVars == <<updTimer, inflight, awaiting, deleted, eventsN>>
appVars == <<bridge, lastA, grouperVars, watchVars>>
ledgerVars == <<ledger, dirty, stored, sinkCalls, lastL, appVars>>
vars == <<handleVars, ledgerVars>>

\* the operation that led to a state: op names it, id / c name the binding,
\* debounced function or characteristic it acted on, raw / val are its input
\* and result, flag is its own bit, err says an error reached the caller.
\*   accessorize: val the accessory returned, flag: it was built by this call
\*   deliver, write: raw the value, flag: a handler was invoked
\*   timer: id the debounced function, raw its argument, val the calls it
\*          had collected, flag: the handler was invoked
\*   read: id the binding, c the characteristic, raw the cached value, val
\*         the value returned
\*   update: one characteristic of the update callback; id the binding, val
\*           the characteristic's value before, flag: the callback ended
\*   devWrite: the write handler called setCapabilityValue(capability, val)
\*   writeEnd: the write handler ended; flag: the device rejected the write
Ev(op, id, c, raw, val, flag, err) ==
  [op |-> op, id |-> id, c |-> c, raw |-> raw, val |-> val, flag |-> flag, err |-> err]

NoEv(op) == Ev(op, 0, 0, Undefined, Undefined, FALSE, FALSE)

\* every capability name the scenario can touch
CapNames(sc) ==
  sc.device.capabilities
    \cup { CapabilityName(SplitBase(v), SplitGroup(v)) : v \in Range(sc.device.visible) }

\* ------------------------------------------------------- handle: operations
\* updateCapability(capability, value)
updateCapability(obj, capability, value) == [obj EXCEPT ![capability] = value]

\* accessorize() without its shortcut: every call builds again
AlreadyCreatedNever(a) == FALSE

\* "shortcut if already created"
AlreadyCreated(a) == a # 0

\* cleanup() that stops after the first listener
DestroyFirstListener(subs, listeners) ==
  [i \in DOMAIN subs |->
     IF listeners # <<>> /\ i = Head(listeners)
     THEN [subs[i] EXCEPT !.destroyed = TRUE] ELSE subs[i]]

\* cleanup(): listener.destroy() for every listener of #listeners
DestroyListeners(subs, listeners) ==
  [i \in DOMAIN subs |->
     IF i \in Range(listeners) THEN [subs[i] EXCEPT !.destroyed = TRUE] ELSE subs[i]]

\* start of an async handler: it runs to its first await
Invoke(m, d, arg) ==
  LET deb == m.acc.debs[d] IN
  [m EXCEPT
     !.acc.debs[d].firedSince = @ + 1,
     !.acc.debs[d].pending = 0,
     !.fired   = TRUE,
     !.running = Append(@, [kind |-> deb.kind, b |-> deb.b,
                            i |-> IF deb.kind = "update" THEN 1 ELSE deb.c,
                            raw |-> arg, val |-> Undefined,
                            phase |-> IF deb.kind = "update" THEN "getter" ELSE "setter"])]

\* the debounced function is called with arg at time t
CallDebounced(m, d, arg, t) ==
  LET deb     == m.acc.debs[d]
      callNow == deb.immediate /\ ~deb.timer
      m1 == [m EXCEPT
               !.acc.debs[d].stamp  = t,
               !.acc.debs[d].args   = arg,
               !.acc.debs[d].timer  = TRUE,
               !.acc.debs[d].due    = IF deb.timer THEN @ ELSE t + deb.wait,
               !.acc.debs[d].firedSince = 0,
               !.acc.debs[d].pending = @ + 1]
  IN IF callNow THEN Invoke(m1, d, arg) ELSE m1

\* the timer of a debounced function fires: later()
Later(m, d, t) ==
  LET deb     == m.acc.debs[d]
      elapsed == t - deb.stamp
  IN IF elapsed < deb.wait
     THEN [m EXCEPT !.acc.debs[d].due = t + (deb.wait - elapsed)]
     ELSE LET m1 == [m EXCEPT !.acc.debs[d].timer = FALSE]
          IN IF ~deb.immediate THEN Invoke(m1, d, deb.args) ELSE m1

\* a device update reaches every live subscription of the capability
RECURSIVE DeliverTo(_, _, _, _, _)
DeliverTo(m, subs, capability, raw, t) ==
  IF subs = <<>> THEN m
  ELSE LET s == Head(subs) IN
       DeliverTo(IF s.capability = capability /\ ~s.destroyed
                 THEN CallDebounced(m, s.deb, raw, t) ELSE m,
                 Tail(subs), capability, raw, t)

Machine == [acc |-> acc, running |-> running, fired |-> FALSE]

\* a read handler that answers a missing value with the characteristic's
\* lowest value
onGetDefaulting(rawValue, getter, ctype) ==
  IF rawValue = Undefined
  THEN [err |-> FALSE, value |-> Validate(ctype, 0)]
  ELSE [err |-> FALSE, value |-> Validate(ctype, Getter(getter, rawValue, ctype))]

\* the read handler of a characteristic (onGet)
onGet(rawValue, getter, ctype) ==
  IF rawValue = Undefined
  THEN [err |-> TRUE, value |-> Undefined]
  ELSE [err |-> FALSE, value |-> Validate(ctype, Getter(getter, rawValue, ctype))]

\* a write handler without the .catch: the rejection reaches the caller and
\* updateCapability is skipped
WriteOutcomeUncaught(rejected) == [update |-> ~rejected, thrown |-> rejected]

\* the end of the write handler (onSet): .catch(() => {}) swallows the
\* device's rejection, updateCapability follows either way
WriteOutcome(rejected) == [update |-> TRUE, thrown |-> FALSE]

\* one characteristic of the update callback's loop
UpdateValue(chars, c, getter, raw) ==
  LET value == Getter(getter, raw, chars[c].ctype) IN
  IF value = NO_VALUE THEN chars
  ELSE [chars EXCEPT ![c].value = Validate(chars[c].ctype, value)]

RemoveAt(s, k) == SubSeq(s, 1, k - 1) \o SubSeq(s, k + 1, Len(s))

\* a suspended handler whose awaited value is a promise resumes whenever the
\* promise settles; one awaiting a plain value resumes in microtask order
IsAsync(r) ==
  \/ r.kind = "update" /\ acc.bindings[r.b].getter = "pctAsync"
  \/ r.kind = "write" /\ r.phase = "device"

CanResume(k) == IsAsync(running[k]) \/ \A j \in 1..(k - 1) : IsAsync(running[j])

\* ----------------------------------------------------------- handle: Init
InitHandle ==
  /\ scenario \in Scenarios
  /\ accessory = 0
  /\ created = 0
  /\ acc = [EmptyAccessory EXCEPT !.services = <<>>]
  /\ capabilitiesObj = [n \in CapNames(scenario) |-> scenario.value]
  /\ running = <<>>
  /\ now = 0
  /\ cleaned = FALSE
  /\ inputsN = 0
  /\ delivered = [n \in CapNames(scenario) |-> Undefined]
  /\ wrote = FALSE
  /\ last = NoEv("init")

\* --------------------------------------------------------- handle: actions
\* accessorize()
Accessorize ==
  /\ IF AlreadyCreated(accessory)
     THEN /\ UNCHANGED <<accessory, created, acc>>
          /\ last' = Ev("accessorize", 0, 0, Undefined, accessory, FALSE, FALSE)
     ELSE /\ accessory' = created + 1
          /\ created' = created + 1
          /\ acc' = BuildAccessory(scenario.device, scenario.maps, acc)
          /\ last' = Ev("accessorize", 0, 0, Undefined,
                        IF acc'.threw THEN Undefined ELSE accessory',
                        TRUE, acc'.threw)
  /\ UNCHANGED <<scenario, capabilitiesObj, running, now, cleaned, inputsN,
                 delivered, wrote>>
  /\ UNCHANGED ledgerVars

\* cleanup()
Cleanup ==
  /\ accessory # 0
  /\ acc' = [acc EXCEPT !.subs = DestroyListeners(@, acc.listeners)]
  /\ cleaned' = TRUE
  /\ last' = NoEv("cleanup")
  /\ UNCHANGED <<scenario, accessory, created, capabilitiesObj, running, now,
                 inputsN, delivered, wrote>>
  /\ UNCHANGED ledgerVars

\* the device reports a new value of a capability
Deliver(capability, raw) ==
  /\ inputsN < MaxInputs
  /\ \E i \in DOMAIN acc.subs :
       acc.subs[i].capability = capability /\ ~acc.subs[i].destroyed
  /\ LET m == DeliverTo(Machine, acc.subs, capability, raw, now) IN
       /\ acc' = m.acc
       /\ running' = m.running
       /\ last' = Ev("deliver", 0, 0, raw, Undefined, m.fired, FALSE)
  /\ inputsN' = inputsN + 1
  /\ delivered' = [delivered EXCEPT ![capability] = raw]
  /\ UNCHANGED <<scenario, accessory, created, capabilitiesObj, now, cleaned,
                 wrote>>
  /\ UNCHANGED ledgerVars

\* HomeKit writes a characteristic that has a write handler; the accessory is
\* off the bridge by the time its handle is cleaned up
WriteRequest(c, value) ==
  /\ inputsN < MaxInputs
  /\ ~cleaned
  /\ acc.chars[c].onSet # 0
  /\ LET m == CallDebounced(Machine, acc.chars[c].onSet, value, now) IN
       /\ acc' = [m.acc EXCEPT !.chars[c].value = value]
       /\ running' = m.running
       /\ last' = Ev("write", acc.chars[c].onSet, c, value, Undefined, m.fired, FALSE)
  /\ inputsN' = inputsN + 1
  /\ wrote' = TRUE
  /\ UNCHANGED <<scenario, accessory, created, capabilitiesObj, now, cleaned,
                 delivered>>
  /\ UNCHANGED ledgerVars

\* HomeKit reads a characteristic that has a read handler
Read(c) ==
  /\ ~cleaned
  /\ acc.chars[c].onGet # 0
  /\ LET bd == acc.bindings[acc.chars[c].onGet]
         r  == onGet(capabilitiesObj[bd.capability], bd.getter, acc.chars[c].ctype)
     IN last' = Ev("read", acc.chars[c].onGet, c, capabilitiesObj[bd.capability],
                   r.value, FALSE, r.err)
  /\ UNCHANGED <<scenario, accessory, created, acc, capabilitiesObj, running, now,
                 cleaned, inputsN, delivered, wrote>>
  /\ UNCHANGED ledgerVars

\* the pending timer of a debounced function fires
TimerFire(d) ==
  /\ acc.debs[d].timer
  /\ now >= acc.debs[d].due
  /\ LET m == Later(Machine, d, now) IN
       /\ acc' = m.acc
       /\ running' = m.running
       /\ last' = Ev("timer", d, 0, acc.debs[d].args, acc.debs[d].pending, m.fired, FALSE)
  /\ UNCHANGED <<scenario, accessory, created, capabilitiesObj, now, cleaned,
                 inputsN, delivered, wrote>>
  /\ UNCHANGED ledgerVars

\* 100 ms pass; the clock matters only while a timer waits for its time
Tick ==
  /\ now < MaxTime
  /\ \E d \in DOMAIN acc.debs : acc.debs[d].timer /\ acc.debs[d].due > now
  /\ now' = now + 1
  /\ last' = NoEv("tick")
  /\ UNCHANGED <<scenario, accessory, created, acc, capabilitiesObj, running,
                 cleaned, inputsN, delivered, wrote>>
  /\ UNCHANGED ledgerVars

\* the update callback resumes after `await getter(...)`: the characteristic
\* is updated unless the getter said NO_VALUE; after the last characteristic
\* the cached value is set.  Calling an absent getter throws.
ResumeUpdate(k) ==
  LET r  == running[k]
      bd == acc.bindings[r.b]
      c  == bd.chars[r.i]
  IN
  /\ r.kind = "update"
  /\ CanResume(k)
  /\ IF bd.getter = None
     THEN /\ running' = RemoveAt(running, k)
          /\ last' = Ev("update", r.b, c, r.raw, acc.chars[c].value, TRUE, TRUE)
          /\ UNCHANGED <<acc, capabilitiesObj>>
     ELSE /\ acc' = [acc EXCEPT !.chars = UpdateValue(@, c, bd.getter, r.raw)]
          /\ last' = Ev("update", r.b, c, r.raw, acc.chars[c].value,
                        r.i = Len(bd.chars), FALSE)
          /\ IF r.i = Len(bd.chars)
             THEN /\ capabilitiesObj' = updateCapability(capabilitiesObj, bd.capability, r.raw)
                  /\ running' = RemoveAt(running, k)
             ELSE /\ running' = Append(RemoveAt(running, k), [r EXCEPT !.i = @ + 1])
                  /\ UNCHANGED capabilitiesObj
  /\ UNCHANGED <<scenario, accessory, created, now, cleaned, inputsN,
                 delivered, wrote>>
  /\ UNCHANGED ledgerVars

\* the write handler resumes after `await setter(...)`: the value goes to the
\* device (setCapabilityValue)
ResumeSetter(k) ==
  LET r  == running[k]
      bd == acc.bindings[r.b]
      value == Setter(bd.setter, r.raw)
  IN
  /\ r.kind = "write" /\ r.phase = "setter"
  /\ CanResume(k)
  /\ running' = Append(RemoveAt(running, k), [r EXCEPT !.val = value, !.phase = "device"])
  /\ last' = Ev("devWrite", r.b, r.i, r.raw, value, FALSE, FALSE)
  /\ UNCHANGED <<scenario, accessory, created, acc, capabilitiesObj, now, cleaned,
                 inputsN, delivered, wrote>>
  /\ UNCHANGED ledgerVars

\* the device answers the write, accepting or rejecting it
ResumeDevice(k, rejected) ==
  LET r  == running[k]
      bd == acc.bindings[r.b]
      o  == WriteOutcome(rejected)
  IN
  /\ r.kind = "write" /\ r.phase = "device"
  /\ running' = RemoveAt(running, k)
  /\ capabilitiesObj' = IF o.update
                        THEN updateCapability(capabilitiesObj, bd.capability, r.val)
                        ELSE capabilitiesObj
  /\ last' = Ev("writeEnd", r.b, r.i, r.raw, r.val, rejected, o.thrown)
  /\ UNCHANGED <<scenario, accessory, created, acc, now, cleaned, inputsN,
                 delivered, wrote>>
  /\ UNCHANGED ledgerVars

NextHandle ==
  \/ Accessorize
  \/ Cleanup
  \/ \E n \in CapNames(scenario), raw \in RawValues : Deliver(n, raw)
  \/ \E c \in DOMAIN acc.chars, v \in WriteValues : WriteRequest(c, v)
  \/ \E c \in DOMAIN acc.chars : Read(c)
  \/ \E d \in DOMAIN acc.debs : TimerFire(d)
  \/ Tick
  \/ \E k \in DOMAIN running : ResumeUpdate(k)
  \/ \E k \in DOMAIN running : ResumeSetter(k)
  \/ \E k \in DOMAIN running, rejected \in BOOLEAN : ResumeDevice(k, rejected)

\* ------------------------------------------------------- ledger: operations
\* StorageBackedMap, a Map from device id to the exposure decision.  A key the
\* map does not hold is Absent; the values are JavaScript's true, false and
\* undefined.
Ids     == {"dev-1", "dev-2"}
Absent  == "absent"
Values  == {"true", "false", "undefined"}

has(m, key) == m[key] # Absent
get(m, key) == IF has(m, key) THEN m[key] ELSE "undefined"

\* a set that marks the map dirty whatever the value
setMarksAlways(L, key, value) ==
  [m |-> [L.m EXCEPT ![key] = value], dirty |-> TRUE]

\* set(key, value)
set(L, key, value) ==
  [m |-> [L.m EXCEPT ![key] = value], dirty |-> L.dirty \/ get(L.m, key) # value]

\* a delete that never marks the map dirty
deleteSilently(L, key) ==
  [m |-> [L.m EXCEPT ![key] = Absent], dirty |-> L.dirty]

\* delete(key)
delete(L, key) ==
  [m |-> [L.m EXCEPT ![key] = Absent], dirty |-> L.dirty \/ has(L.m, key)]

RECURSIVE SetEach(_, _, _)
SetEach(L, keys, valueOf) ==
  IF keys = {} THEN L
  ELSE LET k == CHOOSE x \in keys : TRUE IN
       SetEach(set(L, k, valueOf[k]), keys \ {k}, valueOf)

\* a constructor that leaves #dirty as the loading set() calls left it
constructorKeepsDirty(data) ==
  SetEach([m |-> [k \in Ids |-> Absent], dirty |-> FALSE],
          { k \in Ids : data[k] # Absent }, data)

\* constructor(data, onSave): every entry of data is set, then the map is
\* "not dirty after loading"
constructor(data) ==
  [SetEach([m |-> [k \in Ids |-> Absent], dirty |-> FALSE],
           { k \in Ids : data[k] # Absent }, data)
     EXCEPT !.dirty = FALSE]

\* save(): nothing unless dirty; else the sink gets the whole snapshot
save(L) ==
  IF ~L.dirty THEN [m |-> L.m, dirty |-> L.dirty, wrote |-> FALSE]
  ELSE [m |-> L.m, dirty |-> FALSE, wrote |-> TRUE]

\* a setAll that leaves the saving to its caller
setAllUnsaved(L, value) ==
  LET S == SetEach(L, { k \in Ids : has(L.m, k) }, [k \in Ids |-> value])
  IN [m |-> S.m, dirty |-> S.dirty, wrote |-> FALSE]

\* setAll(value)
setAll(L, value) ==
  save(SetEach(L, { k \in Ids : has(L.m, k) }, [k \in Ids |-> value]))

isDirty(L) == L.dirty

Ledger == [m |-> ledger, dirty |-> dirty]

LEv(op, key, value, sunk) ==
  [op |-> op, key |-> key, value |-> value, wrote |-> sunk, after |-> lastL.op]

\* the ledger after an operation, the sink called when `sunk`
LedgerBecomes(L, sunk) ==
  /\ ledger' = L.m
  /\ dirty' = L.dirty
  /\ stored' = IF sunk THEN L.m ELSE stored
  /\ sinkCalls' = IF sunk THEN sinkCalls + 1 ELSE sinkCalls

\* --------------------------------------------------------- ledger: actions
InitLedger ==
  \E data \in [Ids -> {Absent, "true", "false"}] :
    /\ ledger = constructor(data).m
    /\ dirty = constructor(data).dirty
    /\ stored = data
    /\ sinkCalls = 0
    /\ lastL = [op |-> "load", key |-> "", value |-> "", wrote |-> FALSE, after |-> ""]

\* the callers pass true or false (the default of a new device, "unable to
\* map", expose, unexpose); undefined is passed only by exposeDevice when it
\* restores the old state of a key it has just set
LedgerSet(key, value) ==
  /\ value = "undefined" => has(ledger, key)
  /\ LedgerBecomes(set(Ledger, key, value), FALSE)
  /\ lastL' = LEv("set", key, value, FALSE)
  /\ UNCHANGED handleVars
  /\ UNCHANGED appVars

LedgerDelete(key) ==
  /\ LedgerBecomes(delete(Ledger, key), FALSE)
  /\ lastL' = LEv("delete", key, "", FALSE)
  /\ UNCHANGED handleVars
  /\ UNCHANGED appVars

LedgerSetAll(value) ==
  LET L == setAll(Ledger, value) IN
  /\ L.wrote => sinkCalls < MaxSinkCalls
  /\ LedgerBecomes(L, L.wrote)
  /\ lastL' = LEv("setAll", "", value, L.wrote)
  /\ UNCHANGED handleVars
  /\ UNCHANGED appVars

LedgerSave ==
  LET L == save(Ledger) IN
  /\ L.wrote => sinkCalls < MaxSinkCalls
  /\ LedgerBecomes(L, L.wrote)
  /\ lastL' = LEv("save", "", "", L.wrote)
  /\ UNCHANGED handleVars
  /\ UNCHANGED appVars

NextLedger ==
  \/ \E k \in Ids, v \in Values : LedgerSet(k, v)
  \/ \E k \in Ids : LedgerDelete(k)
  \/ \E v \in {"true", "false"} : LedgerSetAll(v)
  \/ LedgerSave

\* --------------------------------------------------------- app: operations
\* HomeKitty: the exposure ledger (#exposed) and the bridge.  A transaction
\* acts on S = [m, dirty, stored, sinkCalls, bridge].
AppState ==
  [m |-> ledger, dirty |-> dirty, stored |-> stored, sinkCalls |-> sinkCalls,
   bridge |-> bridge]

\* this.#exposed.set / delete / save / setAll
ExposedSet(S, id, value) ==
  LET L == set([m |-> S.m, dirty |-> S.dirty], id, value)
  IN [S EXCEPT !.m = L.m, !.dirty = L.dirty]

ExposedDelete(S, id) ==
  LET L == delete([m |-> S.m, dirty |-> S.dirty], id)
  IN [S EXCEPT !.m = L.m, !.dirty = L.dirty]

Sunk(S, L) ==
  [S EXCEPT !.m = L.m, !.dirty = L.dirty,
            !.stored = IF L.wrote THEN L.m ELSE @,
            !.sinkCalls = IF L.wrote THEN @ + 1 ELSE @]

ExposedSave(S) == Sunk(S, save([m |-> S.m, dirty |-> S.dirty]))

ExposedSetAll(S, value) == Sunk(S, setAll([m |-> S.m, dirty |-> S.dirty], value))

\* what a transaction finds about its device: virtual (isVirtualDevice),
\* ready (device.ready and capabilitiesObj), mappable (DeviceMapper.mapDevice
\* returns a handle), addFails (accessorize() or addBridgedAccessory throws).
\* A flag the code does not get to look at is left FALSE.
DeviceInputs ==
  { d \in [virtual : BOOLEAN, ready : BOOLEAN, mappable : BOOLEAN, addFails : BOOLEAN] :
      /\ d.virtual => ~d.ready
      /\ ~d.ready => ~d.mappable
      /\ ~d.mappable => ~d.addFails }

\* homey.settings.get('Settings.NewDevicePublish') ?? true
NewDevicePublish == {"true", "false"}

AddResult(S, result) == [S |-> S, result |-> result, threw |-> FALSE]

\* "unable to map" that returns false and leaves the entry alone
UnmappedKeepsEntry(S, id) == AddResult(S, "false")

\* "unable to map": the entry is set to false and false is returned
Unmapped(S, id) == AddResult(ExposedSet(S, id, "false"), "false")

\* an add that does not look at the device's entry before it attaches
addDeviceIgnoringEntry(S, id, d, publish) ==
  IF d.virtual THEN AddResult(S, "undefined")
  ELSE IF ~d.ready THEN AddResult(S, "false")
  ELSE LET S1 == IF ~has(S.m, id) THEN ExposedSet(S, id, publish) ELSE S IN
       IF d.mappable
       THEN IF d.addFails \/ id \in S1.bridge
            THEN AddResult(S1, "false")
            ELSE AddResult([S1 EXCEPT !.bridge = @ \cup {id}], "true")
       ELSE Unmapped(S1, id)

\* addDeviceToHomeKit(device); addBridgedAccessory throws for an accessory
\* that is on the bridge already
addDeviceToHomeKit(S, id, d, publish) ==
  IF d.virtual THEN AddResult(S, "undefined")
  ELSE IF ~d.ready THEN AddResult(S, "false")
  ELSE LET S1 == IF ~has(S.m, id) THEN ExposedSet(S, id, publish) ELSE S IN
       IF d.mappable
       THEN IF get(S1.m, id) # "false"
            THEN IF d.addFails \/ id \in S1.bridge
                 THEN AddResult(S1, "false")
                 ELSE AddResult([S1 EXCEPT !.bridge = @ \cup {id}], "true")
            ELSE AddResult(S1, "true")
       ELSE Unmapped(S1, id)

\* deleteDeviceFromHomeKit(device): false when the device has no accessory or
\* accessory.destroy() throws, after the accessory has left the bridge
deleteDeviceFromHomeKit(S, id, destroyFails) ==
  IF id \notin S.bridge THEN [S |-> S, result |-> FALSE]
  ELSE [S |-> [S EXCEPT !.bridge = @ \ {id}], result |-> ~destroyFails]

\* ----------------------------------------------------------- app: actions
DeviceOrder == <<"dev-1", "dev-2">>

NoDevice == [virtual |-> FALSE, ready |-> FALSE, mappable |-> FALSE, addFails |-> FALSE]

\* what the last addDeviceToHomeKit call of a transaction did: its result,
\* the device's entry and the bridge before and after it
NoAdd ==
  [called |-> FALSE, result |-> "none", threw |-> FALSE, entryBefore |-> Absent,
   entry |-> Absent, bridgeBefore |-> {}, bridgeAfter |-> {}]

AddInfo(S, r, id) ==
  [called |-> TRUE, result |-> r.result, threw |-> r.threw, entryBefore |-> S.m[id],
   entry |-> r.S.m[id], bridgeBefore |-> S.bridge, bridgeAfter |-> r.S.bridge]

\* the transaction that led to a state: op, the device it was about, its
\* last addDeviceToHomeKit call, and whether it raised an error to its caller
AEv(op, id, d, add, threw) ==
  [op |-> op, id |-> id, d |-> d, add |-> add, threw |-> threw]

\* no event has been delivered: the debounced update handler has no call
\* pending, no handler is suspended
NoTimer == [timer |-> FALSE, id |-> "", d |-> NoDevice]

IdleWatch ==
  /\ updTimer = NoTimer
  /\ inflight = <<>>
  /\ awaiting = {}
  /\ deleted = {}
  /\ eventsN = 0

IdleApp ==
  /\ bridge = {}
  /\ lastA = AEv("init", "", NoDevice, NoAdd, FALSE)
  /\ visibleIn = <<>>
  /\ grouped = <<>>
  /\ flat = <<>>
  /\ reflat = <<>>
  /\ bound = [handlers |-> {}, subscribed |-> {}, threw |-> FALSE]
  /\ built = [maps |-> <<>>, st |-> EmptyAccessory]
  /\ lastG = "idle"
  /\ IdleWatch

AppBecomes(S) ==
  /\ S.sinkCalls <= MaxSinkCalls
  /\ ledger' = S.m
  /\ dirty' = S.dirty
  /\ stored' = S.stored
  /\ sinkCalls' = S.sinkCalls
  /\ bridge' = S.bridge
  /\ UNCHANGED lastL
  /\ UNCHANGED handleVars
  /\ UNCHANGED grouperVars
  /\ UNCHANGED watchVars

\* the loop of mapDevices: [S, add] after the devices from position i on
RECURSIVE AddEach(_, _, _, _, _)
AddEach(S, add, i, devs, publish) ==
  IF i > Len(DeviceOrder) THEN [S |-> S, add |-> add]
  ELSE LET id == DeviceOrder[i]
           r  == addDeviceToHomeKit(S, id, devs[id], publish)
       IN AddEach(r.S, AddInfo(S, r, id), i + 1, devs, publish)

\* mapDevices(): every device is tried, then the ledger is saved
MapDevices(devs, publish) ==
  /\ lastA.op = "init"
  /\ LET r == AddEach(AppState, NoAdd, 1, devs, publish) IN
       /\ AppBecomes(ExposedSave(r.S))
       /\ lastA' = AEv("mapDevices", DeviceOrder[Len(DeviceOrder)],
                       devs[DeviceOrder[Len(DeviceOrder)]], r.add, FALSE)

\* the device.update handler
DeviceUpdate(id, d, changed, destroyFails, publish) ==
  /\ lastA.op # "init"
  /\ (changed \/ destroyFails) => id \in bridge
  /\ destroyFails => changed
  /\ IF d.virtual \/ ~d.ready
     THEN /\ AppBecomes(AppState)
          /\ lastA' = AEv("deviceUpdate", id, d, NoAdd, FALSE)
     ELSE LET S1 == IF id \in bridge /\ changed
                    THEN deleteDeviceFromHomeKit(AppState, id, destroyFails).S
                    ELSE AppState
              addDevice == id \notin bridge \/ changed
              r  == addDeviceToHomeKit(S1, id, d, publish)
          IN IF addDevice
             THEN /\ AppBecomes(IF r.result = "true" THEN ExposedSave(r.S) ELSE r.S)
                  /\ lastA' = AEv("deviceUpdate", id, d, AddInfo(S1, r, id), FALSE)
             ELSE /\ AppBecomes(S1)
                  /\ lastA' = AEv("deviceUpdate", id, d, NoAdd, FALSE)

\* the device.delete handler: deleteDevice(device)
DeviceDelete(id, virtual, destroyFails) ==
  /\ lastA.op # "init"
  /\ destroyFails => (id \in bridge /\ ~virtual)
  /\ AppBecomes(IF virtual THEN AppState
                ELSE ExposedSave(ExposedDelete(
                       deleteDeviceFromHomeKit(AppState, id, destroyFails).S, id)))
  /\ lastA' = AEv("deviceDelete", id, [NoDevice EXCEPT !.virtual = virtual], NoAdd, FALSE)

\* api.exposeDevice(id); found: "missing", "unavailable" or "available"
ExposeDevice(id, found, d, publish) ==
  /\ lastA.op # "init"
  /\ found # "available" => d = NoDevice
  /\ CASE found = "missing" ->
            /\ AppBecomes(AppState)
            /\ lastA' = AEv("exposeDevice", id, d, NoAdd, TRUE)
       [] found = "unavailable" ->
            /\ AppBecomes(ExposedSave(ExposedSet(AppState, id, "true")))
            /\ lastA' = AEv("exposeDevice", id, d, NoAdd, TRUE)
       [] OTHER ->
            LET oldExposureState == get(ledger, id)
                S1 == ExposedSave(ExposedSet(AppState, id, "true"))
                r  == addDeviceToHomeKit(S1, id, d, publish)
            IN IF r.result # "true"
               THEN /\ AppBecomes(ExposedSave(ExposedSet(r.S, id, oldExposureState)))
                    /\ lastA' = AEv("exposeDevice", id, d, AddInfo(S1, r, id), TRUE)
               ELSE /\ AppBecomes(r.S)
                    /\ lastA' = AEv("exposeDevice", id, d, AddInfo(S1, r, id), FALSE)

\* api.unexposeDevice(id)
UnexposeDevice(id, destroyFails) ==
  /\ lastA.op # "init"
  /\ destroyFails => id \in bridge
  /\ LET r == deleteDeviceFromHomeKit(AppState, id, destroyFails) IN
     IF id \in bridge /\ ~r.result
     THEN /\ AppBecomes(r.S)
          /\ lastA' = AEv("unexposeDevice", id, NoDevice, NoAdd, TRUE)
     ELSE /\ AppBecomes(ExposedSave(ExposedSet(r.S, id, "false")))
          /\ lastA' = AEv("unexposeDevice", id, NoDevice, NoAdd, FALSE)

\* the settings page sets Settings.SetExposureState
SetExposureState(state) ==
  /\ lastA.op # "init"
  /\ AppBecomes(IF state \in {"true", "false"}
                THEN ExposedSetAll(AppState, state) ELSE AppState)
  /\ lastA' = AEv("setAll", "", NoDevice, NoAdd, FALSE)

\* onUninit / unload
Teardown ==
  /\ lastA.op # "init"
  /\ AppBecomes(ExposedSave(AppState))
  /\ lastA' = AEv("teardown", "", NoDevice, NoAdd, FALSE)

NextApp ==
  \/ \E devs \in [Ids -> DeviceInputs], p \in NewDevicePublish : MapDevices(devs, p)
  \/ \E id \in Ids, d \in DeviceInputs, ch \in BOOLEAN, f \in BOOLEAN,
        p \in NewDevicePublish : DeviceUpdate(id, d, ch, f, p)
  \/ \E id \in Ids, v \in BOOLEAN, f \in BOOLEAN : DeviceDelete(id, v, f)
  \/ \E id \in Ids, found \in {"missing", "unavailable", "available"},
        d \in DeviceInputs \cup {NoDevice}, p \in NewDevicePublish :
          ExposeDevice(id, found, d, p)
  \/ \E id \in Ids, f \in BOOLEAN : UnexposeDevice(id, f)
  \/ \E state \in {"true", "false", "undefined"} : SetExposureState(state)
  \/ Teardown

\* ------------------------------------------------------------------ grouper
\* groupCapabilities, flattenGroups and the names accessorize() binds, for
\* every list of up to MaxVisible visible identifiers: two base capabilities,
\* without group, with a numeric or a named group, and with two '.'
Identifiers ==
  { <<b>> : b \in {"dim", "onoff"} }
    \cup { <<b, g>> : b \in {"dim", "onoff"}, g \in {"1", "2", "a"} }
    \cup { <<"dim", "1", "2">> }

RECURSIVE SeqsUpTo(_, _)
SeqsUpTo(S, n) ==
  IF n = 0 THEN { <<>> }
  ELSE LET shorter == SeqsUpTo(S, n - 1)
       IN shorter \cup { Append(q, x) : q \in { r \in shorter : Len(r) = n - 1 }, x \in S }

\* a map that binds both base capabilities
BothMap(group) ==
  CapabilityMap("light", group, "Lightbulb",
                "dim" :> <<Binding(<<"Brightness">>, <<"pct">>, <<"div100">>, 0)>>,
                "onoff" :> <<Binding(<<"On">>, <<"pct">>, <<"div100">>, 0)>>,
                NoBindings, FALSE, FALSE)

\* what accessorize() bound: the capability names of the read / write
\* handlers (bindings) and of the device subscriptions
BoundNames(st) ==
  [handlers |-> { st.bindings[b].capability : b \in DOMAIN st.bindings },
   subscribed |-> { st.subs[i].capability : i \in DOMAIN st.subs },
   threw |-> st.threw]

NoNames == [handlers |-> {}, subscribed |-> {}, threw |-> FALSE]

InitGrouper ==
  /\ visibleIn \in SeqsUpTo(Identifiers, MaxVisible) \ { <<>> }
  /\ grouped = <<>>
  /\ flat = <<>>
  /\ reflat = <<>>
  /\ bound = NoNames
  /\ built = [maps |-> <<>>, st |-> EmptyAccessory]
  /\ lastG = "init"

GroupStep ==
  /\ lastG = "init"
  /\ grouped' = groupCapabilities(visibleIn)
  /\ lastG' = "group"
  /\ UNCHANGED <<visibleIn, flat, reflat, bound, built>>
  /\ UNCHANGED <<handleVars, ledger, dirty, stored, sinkCalls, lastL, bridge, lastA>>
  /\ UNCHANGED watchVars

FlattenStep ==
  /\ lastG = "group"
  /\ flat' = flattenGroups(grouped)
  /\ lastG' = "flatten"
  /\ UNCHANGED <<visibleIn, grouped, reflat, bound, built>>
  /\ UNCHANGED <<handleVars, ledger, dirty, stored, sinkCalls, lastL, bridge, lastA>>
  /\ UNCHANGED watchVars

ReflattenStep ==
  /\ lastG = "flatten"
  /\ reflat' = flattenGroups(flat)
  /\ lastG' = "reflatten"
  /\ UNCHANGED <<visibleIn, grouped, flat, bound, built>>
  /\ UNCHANGED <<handleVars, ledger, dirty, stored, sinkCalls, lastL, bridge, lastA>>
  /\ UNCHANGED watchVars

\* accessorize() of a device with these visible identifiers, all of them
\* capabilities of the device, and one map with group: true
BindStep ==
  /\ lastG = "group"
  /\ bound' = BoundNames(BuildAccessory(Device(Range(visibleIn), visibleIn),
                                        <<BothMap(TRUE)>>, EmptyAccessory))
  /\ lastG' = "bind"
  /\ UNCHANGED <<visibleIn, grouped, flat, reflat, built>>
  /\ UNCHANGED <<handleVars, ledger, dirty, stored, sinkCalls, lastL, bridge, lastA>>
  /\ UNCHANGED watchVars

\* a map with an onService hook (and an onUpdate hook)
HookMap(name, group, required, triggers) ==
  CapabilityMap(name, group, "Lightbulb", required, NoBindings, triggers, TRUE, FALSE)

DimBinding   == <<Binding(<<"Brightness">>, <<"pct">>, <<"div100">>, 0)>>
OnOffBinding == <<Binding(<<"On">>, <<"pct">>, <<"div100">>, 0)>>
EventBinding == <<Binding(<<"ProgrammableSwitchEvent">>, <<"pct">>, <<>>, 0)>>

\* a map of another service type, without hooks
OutletMap ==
  CapabilityMap("outlet", FALSE, "Outlet", "onoff" :> OnOffBinding, NoBindings,
                NoBindings, FALSE, FALSE)

\* the maps a handle may hold: one flattening map over both capabilities,
\* one grouping map, two maps of the same service type, a map that lists dim
\* under required and under triggers, and two grouping maps of the same
\* service type followed by a map of another service type
MapLists ==
  { <<HookMap("light", FALSE, "dim" :> DimBinding @@ "onoff" :> OnOffBinding, NoBindings)>>,
    <<HookMap("light", TRUE, "dim" :> DimBinding @@ "onoff" :> OnOffBinding, NoBindings)>>,
    <<HookMap("light", FALSE, "dim" :> DimBinding, NoBindings),
      HookMap("switch", FALSE, "onoff" :> OnOffBinding, NoBindings)>>,
    <<HookMap("button", FALSE, "dim" :> DimBinding, "dim" :> EventBinding)>>,
    <<HookMap("light", TRUE, "dim" :> DimBinding, NoBindings),
      HookMap("switch", TRUE, "onoff" :> OnOffBinding, NoBindings),
      OutletMap>> }

\* accessorize() of a handle with these maps
BuildStep(maps) ==
  /\ lastG = "group"
  /\ built' = [maps |-> maps,
               st |-> BuildAccessory(Device(Range(visibleIn), visibleIn), maps,
                                     EmptyAccessory)]
  /\ lastG' = "build"
  /\ UNCHANGED <<visibleIn, grouped, flat, reflat, bound>>
  /\ UNCHANGED <<handleVars, ledger, dirty, stored, sinkCalls, lastL, bridge, lastA>>
  /\ UNCHANGED watchVars

NextGrouper ==
  \/ GroupStep
  \/ FlattenStep
  \/ ReflattenStep
  \/ BindStep
  \/ \E maps \in MapLists : BuildStep(maps)

\* -------------------------------------------------------------- watch
\* watchDevices(): the device.delete handler and the device.update handler,
\* which one debounce(fn, 500) wraps for every device.  An event that
\* arrives while the wrapper's timer is pending arrived within 500 ms of the
\* last one: it replaces the pending arguments and the timer starts again.
\* A handler suspended at an await is an entry of inflight:
\*   fetch    : update handler, at `await this.#api.devices.getDevice(...)`
\*   destroy  : update handler, at `await accessory.destroy()` of
\*              deleteDeviceFromHomeKit, the accessory being off the bridge
\*   deleting : delete handler, at the same await
WatchInputs == { d \in DeviceInputs : ~d.addFails }

Suspended(id, d, phase) == [id |-> id, d |-> d, phase |-> phase]

\* `if (await this.addDeviceToHomeKit(device)) await this.#exposed.save()`
SaveIfAdded(r) == IF r.result = "true" THEN ExposedSave(r.S) ELSE r.S

\* the update handler from getAccessoryById on: the state it leaves and the
\* await it stops at ("done" when it ran to its end)
UpdateCheck(S, id, d, changed, publish) ==
  IF id \in S.bridge
  THEN IF changed
       THEN [S |-> deleteDeviceFromHomeKit(S, id, FALSE).S, wait |-> "destroy"]
       ELSE [S |-> S, wait |-> "done"]
  ELSE [S |-> SaveIfAdded(addDeviceToHomeKit(S, id, d, publish)), wait |-> "done"]

\* deleteDevice(device) past deleteDeviceFromHomeKit
DeleteEntry(S, id) == ExposedSave(ExposedDelete(S, id))

WatchBecomes(S) ==
  /\ ledger' = S.m
  /\ dirty' = S.dirty
  /\ stored' = S.stored
  /\ sinkCalls' = S.sinkCalls
  /\ bridge' = S.bridge
  /\ UNCHANGED <<lastL, lastA>>
  /\ UNCHANGED handleVars
  /\ UNCHANGED grouperVars

\* a device.update event reaches the debounced handler
UpdateEvent(id, d) ==
  /\ eventsN < MaxEvents
  /\ eventsN' = eventsN + 1
  /\ updTimer' = [timer |-> TRUE, id |-> id, d |-> d]
  /\ awaiting' = IF d.ready THEN awaiting \cup {id} ELSE awaiting
  /\ deleted' = deleted \ {id}
  /\ UNCHANGED inflight
  /\ WatchBecomes(AppState)

\* 500 ms without an update event: the handler runs with the last arguments
UpdateTimerFire(fetch, changed, publish) ==
  /\ updTimer.timer
  /\ changed => (updTimer.id \in bridge /\ ~fetch)
  /\ updTimer' = NoTimer
  /\ awaiting' = awaiting \ {updTimer.id}
  /\ UNCHANGED <<deleted, eventsN>>
  /\ LET id == updTimer.id
         d  == updTimer.d
     IN IF d.virtual \/ ~d.ready
        THEN /\ ~fetch
             /\ UNCHANGED inflight
             /\ WatchBecomes(AppState)
        ELSE IF fetch
        THEN /\ inflight' = Append(inflight, Suspended(id, d, "fetch"))
             /\ WatchBecomes(AppState)
        ELSE LET r == UpdateCheck(AppState, id, d, changed, publish) IN
             /\ inflight' = IF r.wait = "done" THEN inflight
                            ELSE Append(inflight, Suspended(id, d, r.wait))
             /\ WatchBecomes(r.S)

\* getDevice answers (found) or rejects: the update handler goes on or ends
ResumeFetch(k, found, changed, publish) ==
  /\ k \in DOMAIN inflight
  /\ inflight[k].phase = "fetch"
  /\ changed => (found /\ inflight[k].id \in bridge)
  /\ UNCHANGED <<updTimer, awaiting, deleted, eventsN>>
  /\ IF ~found
     THEN /\ inflight' = RemoveAt(inflight, k)
          /\ WatchBecomes(AppState)
     ELSE LET r == UpdateCheck(AppState, inflight[k].id, inflight[k].d, changed, publish) IN
          /\ inflight' = IF r.wait = "done" THEN RemoveAt(inflight, k)
                         ELSE [inflight EXCEPT ![k].phase = r.wait]
          /\ WatchBecomes(r.S)

\* accessory.destroy() has settled in the update handler: the device is
\* added again as new
ResumeDestroy(k, publish) ==
  /\ k \in DOMAIN inflight
  /\ inflight[k].phase = "destroy"
  /\ inflight' = RemoveAt(inflight, k)
  /\ UNCHANGED <<updTimer, awaiting, deleted, eventsN>>
  /\ WatchBecomes(SaveIfAdded(addDeviceToHomeKit(AppState, inflight[k].id,
                                                 inflight[k].d, publish)))

\* a device.delete event: deleteDevice(device), which stops at
\* accessory.destroy() when the device has an accessory
DeleteEvent(id) ==
  /\ eventsN < MaxEvents
  /\ eventsN' = eventsN + 1
  /\ UNCHANGED <<updTimer, awaiting>>
  /\ IF id \in bridge
     THEN /\ inflight' = Append(inflight, Suspended(id, NoDevice, "deleting"))
          /\ UNCHANGED deleted
          /\ WatchBecomes(deleteDeviceFromHomeKit(AppState, id, FALSE).S)
     ELSE /\ UNCHANGED inflight
          /\ deleted' = deleted \cup {id}
          /\ WatchBecomes(DeleteEntry(AppState, id))

\* accessory.destroy() has settled in the delete handler: deleteDevice ends
ResumeDelete(k) ==
  /\ k \in DOMAIN inflight
  /\ inflight[k].phase = "deleting"
  /\ inflight' = RemoveAt(inflight, k)
  /\ deleted' = deleted \cup {inflight[k].id}
  /\ UNCHANGED <<updTimer, awaiting, eventsN>>
  /\ WatchBecomes(DeleteEntry(AppState, inflight[k].id))

\* what the event loop does on its own: timers and settled promises
WatchRuns ==
  \/ \E f \in BOOLEAN, ch \in BOOLEAN, p \in NewDevicePublish : UpdateTimerFire(f, ch, p)
  \/ \E k \in 1..MaxEvents, found \in BOOLEAN, ch \in BOOLEAN, p \in NewDevicePublish :
       ResumeFetch(k, found, ch, p)
  \/ \E k \in 1..MaxEvents, p \in NewDevicePublish : ResumeDestroy(k, p)
  \/ \E k \in 1..MaxEvents : ResumeDelete(k)

NextWatch ==
  \/ \E id \in Ids, d \in WatchInputs : UpdateEvent(id, d)
  \/ \E id \in Ids : DeleteEvent(id)
  \/ \E f \in BOOLEAN, ch \in BOOLEAN, p \in NewDevicePublish : UpdateTimerFire(f, ch, p)
  \/ \E k \in 1..MaxEvents, found \in BOOLEAN, ch \in BOOLEAN, p \in NewDevicePublish :
       ResumeFetch(k, found, ch, p)
  \/ \E k \in 1..MaxEvents, p \in NewDevicePublish : ResumeDestroy(k, p)
  \/ \E k \in 1..MaxEvents : ResumeDelete(k)

\* ----------------------------------------------------------- specifications
\* the handle of one device, the ledger as loaded from an empty store
Init ==
  /\ InitHandle
  /\ ledger = constructor([k \in Ids |-> Absent]).m
  /\ dirty = FALSE
  /\ stored = [k \in Ids |-> Absent]
  /\ sinkCalls = 0
  /\ lastL = [op |-> "load", key |-> "", value |-> "", wrote |-> FALSE, after |-> ""]
  /\ IdleApp

Next == NextHandle

Spec == Init /\ [][Next]_vars

\* the ledger alone, no handle acting
IdleHandle ==
  /\ scenario = CHOOSE sc \in Scenarios : TRUE
  /\ accessory = 0
  /\ created = 0
  /\ acc = [EmptyAccessory EXCEPT !.services = <<>>]
  /\ capabilitiesObj = [n \in CapNames(scenario) |-> Undefined]
  /\ running = <<>>
  /\ now = 0
  /\ cleaned = FALSE
  /\ inputsN = 0
  /\ delivered = [n \in CapNames(scenario) |-> Undefined]
  /\ wrote = FALSE
  /\ last = NoEv("init")

InitL == IdleHandle /\ InitLedger /\ IdleApp

NextL == NextLedger

SpecLedger == InitL /\ [][NextL]_vars

\* the app's transactions on the ledger and the bridge, from any stored ledger
InitApp == IdleHandle /\ InitLedger /\ IdleApp

SpecApp == InitApp /\ [][NextApp]_vars

\* the grouper alone
IdleBridge ==
  /\ bridge = {}
  /\ lastA = AEv("init", "", NoDevice, NoAdd, FALSE)

InitG ==
  /\ IdleHandle
  /\ InitLedger
  /\ ledger = [k \in Ids |-> Absent]
  /\ IdleBridge
  /\ IdleWatch
  /\ InitGrouper

SpecGrouper == InitG /\ [][NextGrouper]_vars

\* the device watcher, from any stored ledger and an empty bridge
InitWatch == IdleHandle /\ InitLedger /\ IdleApp

SpecWatch == InitWatch /\ [][NextWatch]_vars

\* timers fire and settled promises resume their handlers
SpecWatchLive == InitWatch /\ [][NextWatch]_vars /\ WF_vars(WatchRuns)

\* ------------------------------------------------------------------ claims
Bind(b) == acc.bindings[b]

\* the debounced functions of the device-update callbacks
UpdateDebs == { d \in DOMAIN acc.debs : acc.debs[d].kind = "update" }

\* C1: accessorize() is idempotent per handle.  Once a call has constructed
\* the accessory, every later accessorize() returns that same accessory and
\* creates nothing: no further accessory, service, characteristic handler,
\* debounced function or subscription, and #listeners does not grow.
C1_AccessorizeIdempotent ==
  [][ (accessory # 0 /\ last'.op = "accessorize")
        => /\ last'.val = accessory
           /\ ~last'.err
           /\ accessory' = accessory
           /\ created' = created
           /\ acc'.services = acc.services
           /\ acc'.chars = acc.chars
           /\ acc'.bindings = acc.bindings
           /\ acc'.debs = acc.debs
           /\ acc'.subs = acc.subs
           /\ acc'.listeners = acc.listeners
           /\ acc'.controllers = acc.controllers ]_vars

\* a second accessorize() on a handle that holds two subscriptions
C1_Witness ==
  /\ last.op = "accessorize"
  /\ ~last.flag
  /\ last.val = accessory
  /\ created = 1
  /\ Len(acc.listeners) = 2
  /\ Len(acc.chars) >= 2

\* C2: after cleanup() has returned, no device-update callback and no
\* debounced write handler of the handle is invoked any more, also when a
\* trailing debounce timer was pending when cleanup() was called.
C2_NoCallbackAfterCleanup ==
  cleaned => ~(last.op \in {"deliver", "write", "timer"} /\ last.flag)

\* C3: the subscriptions held in #listeners are exactly the subscriptions
\* created through makeCapabilityInstance, one per binding across all maps
\* and groups, and once cleanup() has run every one of them is destroyed.
C3_CleanupDestroysAll ==
  /\ Range(acc.listeners) = DOMAIN acc.subs
  /\ Len(acc.listeners) = Len(acc.subs)
  /\ Len(acc.subs) = Len(acc.bindings)
  /\ cleaned => \A i \in DOMAIN acc.subs : acc.subs[i].destroyed

\* cleanup() of a handle with the subscriptions of two maps
C3_Witness ==
  /\ last.op = "cleanup"
  /\ Len(scenario.maps) = 2
  /\ Len(acc.subs) = 2
  /\ \A i \in DOMAIN acc.subs : acc.subs[i].destroyed

\* every handler has ended and no timer is pending
Quiescent == running = <<>> /\ \A d \in DOMAIN acc.debs : ~acc.debs[d].timer

\* C4: device value updates of one capability are applied in delivery order.
\* Once every delivered update has been processed (nothing suspended, no timer
\* pending, no update dropped, no HomeKit write in between) the cached value
\* of the capability is the last delivered raw value, and every bound
\* characteristic whose getter gives a value for it reflects it.
C4_UpdatesInOrder ==
  \A b \in DOMAIN acc.bindings :
    LET bd  == Bind(b)
        raw == delivered[bd.capability]
    IN ( /\ Quiescent
         /\ ~wrote
         /\ raw # Undefined
         /\ \A d \in UpdateDebs : acc.debs[d].pending = 0
         /\ \A x \in DOMAIN acc.bindings :
              Bind(x).capability = bd.capability => Bind(x).getter # None )
       => /\ capabilitiesObj[bd.capability] = raw
          /\ \A i \in DOMAIN bd.chars :
               LET c == bd.chars[i]
                   value == Getter(bd.getter, raw, acc.chars[c].ctype)
               IN value # NO_VALUE
                    => acc.chars[c].value = Validate(acc.chars[c].ctype, value)

\* C5: with a debounce interval that is unspecified or 0 every input invokes
\* its handler at the time it arrives: no call of such a debounced function
\* is ever left without its own invocation.
C5_ImmediateFiresEveryInput ==
  \A d \in DOMAIN acc.debs :
    acc.debs[d].wait = 0
      => /\ acc.debs[d].immediate
         /\ acc.debs[d].pending = 0
         /\ acc.debs[d].args # Undefined => acc.debs[d].firedSince = 1

\* C6: with a debounce interval N > 0 an input never invokes the handler
\* itself; a burst is followed by exactly one invocation, made by the timer
\* no earlier than N after the last input and carrying the last input's
\* value.
C6_TrailingFiresOnce ==
  \A d \in DOMAIN acc.debs :
    LET deb == acc.debs[d] IN
    deb.wait > 0
      => /\ ~deb.immediate
         /\ deb.firedSince <= 1
         /\ deb.timer => (deb.firedSince = 0 /\ deb.pending >= 1)
         /\ (~deb.timer /\ deb.args # Undefined)
               => (deb.firedSince = 1 /\ deb.pending = 0)
         /\ (last.op \in {"deliver", "write"} /\ deb.stamp = now /\ deb.timer)
               => deb.firedSince = 0
         /\ (last.op = "timer" /\ last.id = d /\ last.flag)
               => /\ now >= deb.stamp + deb.wait
                  /\ last.raw = deb.args
                  /\ running[Len(running)].raw = deb.args
                  /\ ~deb.timer

\* two device updates 0.4 and 1.2 within the interval are followed by one
\* invocation of the update callback, with 1.2
C6_Witness ==
  /\ last.op = "timer"
  /\ last.flag
  /\ last.id \in UpdateDebs
  /\ acc.debs[last.id].wait = 2
  /\ last.val = 2
  /\ last.raw = 1200
  /\ inputsN = 2
  /\ Len(running) = 1
  /\ running[1].raw = 1200
  /\ \E n \in DOMAIN capabilitiesObj : capabilitiesObj[n] = 400

\* C7: a read of a bound non-trigger characteristic returns
\* validate(getter(v)) for the cached value v of the capability (0.4 with the
\* getter round(v * 100) reads 40); when the device reports no value the read
\* fails with an error to the caller and returns no value.
C7_ReadValidatesOrFails ==
  last.op = "read"
    => LET bd    == Bind(last.id)
           ctype == acc.chars[last.c].ctype
           v     == capabilitiesObj[bd.capability]
       IN /\ ~bd.trigger
          /\ bd.getter # None
          /\ last.c \in Range(bd.chars)
          /\ last.raw = v
          /\ v = Undefined => (last.err /\ last.val = Undefined)
          /\ v # Undefined
               => /\ ~last.err
                  /\ last.val = Validate(ctype, Getter(bd.getter, v, ctype))
          /\ (v = 400 /\ bd.getter \in {"pct", "pctAsync"} /\ ctype = "Brightness")
               => last.val = 40

\* dim = 0.4 is read as Brightness 40
C7_Witness ==
  /\ last.op = "read"
  /\ ~last.err
  /\ capabilitiesObj[Bind(last.id).capability] = 400
  /\ acc.chars[last.c].ctype = "Brightness"
  /\ last.val = 40

\* C8: the write handler sends setter(value) to the device and, when the
\* device has answered, sets the cached capability value to setter(value)
\* (75 with v / 100 gives 0.75); a rejection by the device does not reach the
\* caller and the cached value is set all the same.
C8_WriteIsOptimistic ==
  /\ last.op = "devWrite"
       => /\ last.val = Setter(Bind(last.id).setter, last.raw)
          /\ ~Bind(last.id).trigger
          /\ last.raw = 75 => last.val = 750
  /\ last.op = "writeEnd"
       => /\ last.val = Setter(Bind(last.id).setter, last.raw)
          /\ capabilitiesObj[Bind(last.id).capability] = last.val
          /\ ~last.err
  /\ \A k \in DOMAIN running :
       (running[k].kind = "write" /\ running[k].phase = "device")
          => running[k].val = Setter(Bind(running[k].b).setter, running[k].raw)

\* the device rejects the write of 75: the cached value is 0.75
C8_Witness ==
  /\ last.op = "writeEnd"
  /\ last.flag
  /\ ~last.err
  /\ last.raw = 75
  /\ capabilitiesObj[Bind(last.id).capability] = 750

\* C9: on each device value update the callback leaves a characteristic whose
\* getter returns NO_VALUE unchanged, sets every other bound characteristic
\* to validate(getter(raw)), and when it ends the cached capability value is
\* the raw value.
C9_UpdateAppliesGetter ==
  last.op = "update"
    => LET bd    == Bind(last.id)
           ctype == acc.chars[last.c].ctype
           value == Getter(bd.getter, last.raw, ctype)
       IN /\ (bd.getter # None /\ value = NO_VALUE)
               => acc.chars[last.c].value = last.val
          /\ (bd.getter # None /\ value # NO_VALUE)
               => acc.chars[last.c].value = Validate(ctype, value)
          /\ last.flag => capabilitiesObj[bd.capability] = last.raw

\* C10: save() calls the persistence sink if and only if the dirty bit is
\* set; a save() directly after loading, whatever was loaded, or directly
\* after a previous save() performs no write.
C10_SaveOnlyWhenDirty ==
  [][ lastL'.op = "save"
        => /\ (sinkCalls' = sinkCalls + 1) <=> dirty
           /\ ~dirty => (sinkCalls' = sinkCalls /\ stored' = stored)
           /\ dirty => stored' = ledger
           /\ ~dirty'
           /\ lastL.op \in {"load", "save"} => sinkCalls' = sinkCalls ]_vars

\* save() directly after loading a store that held an entry: no write
C10_Witness ==
  /\ lastL.op = "save"
  /\ lastL.after = "load"
  /\ sinkCalls = 0
  /\ \E k \in Ids : has(ledger, k)

\* C11: set(id, v) when the value stored for id equals v, and delete(id) when
\* id is absent, leave isDirty() as it was; set to a different value and
\* delete of a present key make isDirty() true.
C11_DirtyOnlyOnChange ==
  [][ /\ lastL'.op = "set"
        => LET k == lastL'.key
               same == has(ledger, k) /\ ledger[k] = lastL'.value
           IN /\ same => (dirty' = dirty /\ ledger' = ledger)
              /\ ~same => dirty'
              /\ ledger'[k] = lastL'.value
      /\ lastL'.op = "delete"
        => LET k == lastL'.key
           IN /\ ~has(ledger, k) => (dirty' = dirty /\ ledger' = ledger)
              /\ has(ledger, k) => dirty'
              /\ ~has(ledger', k) ]_vars

\* loaded with {"dev-1": true}, then delete("dev-2"): isDirty() stays false
C11_Witness ==
  /\ lastL.op = "delete"
  /\ lastL.key = "dev-2"
  /\ lastL.after = "load"
  /\ stored = ("dev-1" :> "true" @@ "dev-2" :> Absent)
  /\ ledger = stored
  /\ ~isDirty(Ledger)

\* C12: while isDirty() is false the in-memory snapshot equals the snapshot
\* last loaded or last handed to the persistence sink, and every sink call
\* receives the complete current snapshot.
C12_CleanMeansStored ==
  /\ ~isDirty(Ledger) => ledger = stored
  /\ lastL.wrote => (stored = ledger /\ DOMAIN stored = Ids /\ ~dirty)
  /\ sinkCalls = 0 => lastL.wrote = FALSE

\* a set and a save later the sink holds both keys, the loaded one included
C12_Witness ==
  /\ lastL.op = "save"
  /\ lastL.wrote
  /\ lastL.after = "set"
  /\ sinkCalls = 1
  /\ stored = ("dev-1" :> "true" @@ "dev-2" :> "false")

\* C13: setAll(v) sets every existing key to v, adds and removes no key and
\* performs one save(): one write of the sink if a value changed or the map
\* was dirty already, none otherwise; the map is clean afterwards.
C13_SetAllSavesOnce ==
  [][ lastL'.op = "setAll"
        => LET v == lastL'.value
               changed == \E k \in Ids : has(ledger, k) /\ ledger[k] # v
           IN /\ \A k \in Ids : has(ledger', k) <=> has(ledger, k)
              /\ \A k \in Ids : has(ledger, k) => ledger'[k] = v
              /\ (dirty \/ changed) => (sinkCalls' = sinkCalls + 1 /\ stored' = ledger')
              /\ ~(dirty \/ changed) => (sinkCalls' = sinkCalls /\ stored' = stored)
              /\ ~dirty' ]_vars

\* setAll(true) on a freshly loaded {"dev-1": false, "dev-2": true}: one write
C13_Witness ==
  /\ lastL.op = "setAll"
  /\ lastL.value = "true"
  /\ lastL.after = "load"
  /\ lastL.wrote
  /\ sinkCalls = 1
  /\ \A k \in Ids : ledger[k] = "true"

\* C14: when the handling of a ledger transaction has completed (initial
\* mapping, device update, device delete, exposeDevice, unexposeDevice,
\* setAll, teardown) the ledger is not dirty: every mutation the transaction
\* made has been handed to the persistence sink.
C14_CleanAfterTransaction ==
  lastA.op # "init" => (~dirty /\ ledger = stored)

\* C18: addDeviceToHomeKit on a ready device that no map applies to returns
\* false without throwing, attaches nothing to the bridge and leaves the
\* device's exposure entry set to false.
C18_UnmappedReturnsFalse ==
  (lastA.add.called /\ ~lastA.d.virtual /\ lastA.d.ready /\ ~lastA.d.mappable)
    => /\ lastA.add.result = "false"
       /\ ~lastA.add.threw
       /\ lastA.add.bridgeAfter = lastA.add.bridgeBefore
       /\ lastA.add.entry = "false"

\* a device update of an unmappable device that the ledger did not know
C18_Witness ==
  /\ lastA.op = "deviceUpdate"
  /\ lastA.add.called
  /\ lastA.d.ready
  /\ ~lastA.d.mappable
  /\ lastA.add.entryBefore = Absent
  /\ lastA.add.result = "false"
  /\ ledger[lastA.id] = "false"
  /\ lastA.id \notin bridge

\* the groups of an entry list that hold a capability, as indices
Holders(entries, c) == { i \in DOMAIN entries : c \in Range(entries[i].caps) }

\* C15: after flattenGroups every base capability is in the list of exactly
\* one group, the one with the shortest key among the input groups that hold
\* it ('' is the shortest; of keys of equal length the first of the input).
C15_FlattenKeepsShortest ==
  lastG = "flatten"
    => /\ { flat[j].key : j \in DOMAIN flat } = { grouped[i].key : i \in DOMAIN grouped }
       /\ Len(flat) = Len(grouped)
       /\ \A i \in DOMAIN grouped : \A c \in Range(grouped[i].caps) :
            LET wins == \A j \in Holders(grouped, c) \ {i} :
                           \/ Len(grouped[i].key) < Len(grouped[j].key)
                           \/ /\ Len(grouped[i].key) = Len(grouped[j].key)
                              /\ i < j
                out  == flat[KeyIndex(flat, grouped[i].key)]
            IN /\ Cardinality(Holders(flat, c)) = 1
               /\ wins <=> c \in Range(out.caps)

\* dim visible as dim.a, dim.1 and dim: it stays in the group '' only
C15_Witness ==
  /\ lastG = "flatten"
  /\ visibleIn = << <<"dim", "a">>, <<"dim", "1">>, <<"dim">> >>
  /\ Len(flat) = 3
  /\ \A j \in DOMAIN flat :
       flat[j].caps = IF flat[j].key = "" THEN <<"dim">> ELSE <<>>

\* C16: flattenGroups is idempotent: flattening its own result gives the same
\* group keys, in the same order, with the same capability list per key.
C16_FlattenIdempotent ==
  lastG = "reflatten"
    => /\ reflat = flat
       /\ \A j \in DOMAIN flat :
            /\ KeyIndex(reflat, flat[j].key) # 0
            /\ reflat[KeyIndex(reflat, flat[j].key)].caps = flat[j].caps

\* a group set of two groups from which flattening removed a capability
C16_Witness ==
  /\ lastG = "reflatten"
  /\ Len(grouped) = 2
  /\ flat # grouped
  /\ reflat = flat
  /\ \E j \in DOMAIN flat : flat[j].caps = <<>>
  /\ \E j \in DOMAIN flat : Len(flat[j].caps) = 2

\* C17: every visible identifier is split at its first '.' only, so the name
\* the binder rebuilds from base and group key is the identifier itself, and
\* that name is the one the read / write handlers and the device
\* subscription use; also for an identifier with more than one '.'.
C17_NameRoundTrip ==
  /\ lastG = "group"
       => \A k \in DOMAIN visibleIn :
            \E i \in DOMAIN grouped :
              /\ visibleIn[k][1] \in Range(grouped[i].caps)
              /\ CapabilityName(visibleIn[k][1], grouped[i].key) = visibleIn[k]
  /\ lastG = "bind"
       => /\ bound.handlers = Range(visibleIn)
          /\ bound.subscribed = Range(visibleIn)

\* C19: a capability a map lists under required (or optional) and also under
\* triggers is bound with the required binding, as a non-trigger: its
\* characteristic gets the read and the write handler.
C19_PriorityListing ==
  (lastG = "build" /\ built.maps[1].name = "button")
    => \A b \in DOMAIN built.st.bindings :
         LET bd == built.st.bindings[b] IN
         /\ bd.chars # <<>>
         /\ ~bd.trigger
         /\ \A i \in DOMAIN bd.chars :
              LET ch == built.st.chars[bd.chars[i]] IN
              /\ ch.ctype = "Brightness"
              /\ ch.onGet = b
              /\ ch.onSet # 0

\* C20: the onService hook of a map runs once per constructed service; a
\* service that is reused, by a later group of a group: false map or by a
\* second map of the same service type, gets no further call.
C20_HookOncePerService ==
  lastG = "build"
    => \A i \in DOMAIN built.st.services :
         LET svc == built.st.services[i] IN
         /\ svc.hooks <= 1
         /\ svc.type = "Lightbulb" => svc.hooks = 1

\* C21: a construction failure local to one sub-feature of accessorize()
\* (the service of one map / group, the adaptive-lighting controller) is
\* caught: the accessory is returned, and every map whose service type no
\* other map of the handle shares has all its bindable capabilities
\* subscribed.
C21_ConstructionFailureLocal ==
  lastG = "build"
    => /\ ~built.st.threw
       /\ \A k \in DOMAIN built.maps :
            LET map     == built.maps[k]
                entries == IF map.group THEN grouped ELSE flattenGroups(grouped)
            IN (\A j \in DOMAIN built.maps : j # k => built.maps[j].service # map.service)
                 => \A e \in DOMAIN entries : \A i \in DOMAIN entries[e].caps :
                      HasCharacteristicMaps(map, entries[e].caps[i])
                        => CapabilityName(entries[e].caps[i], entries[e].key)
                             \in BoundNames(built.st).subscribed

\* the group keys of the visible identifiers in order of first appearance
RECURSIVE FirstAppearance(_, _)
FirstAppearance(keys, visible) ==
  IF visible = <<>> THEN keys
  ELSE LET g == SplitGroup(Head(visible))
       IN FirstAppearance(IF g \in Range(keys) THEN keys ELSE Append(keys, g),
                          Tail(visible))

\* C22: groupCapabilities yields the group keys in order of first appearance
\* among the visible identifiers, numeric keys included, and a handle with
\* one group: true map that binds every base capability gets its services
\* in that order.
C22_GroupsInFirstAppearanceOrder ==
  /\ lastG # "init"
       => [i \in DOMAIN grouped |-> grouped[i].key] = FirstAppearance(<<>>, visibleIn)
  /\ (lastG = "build" /\ Len(built.maps) = 1 /\ built.maps[1].group)
       => [i \in 1..(Len(built.st.services) - 1) |->
             LET t == built.st.services[i + 1].subtype
             IN IF t = "default" THEN "" ELSE t]
          = FirstAppearance(<<>>, visibleIn)

C24_ExposeFailureRestores ==
  [][(lastA'.op = "exposeDevice" /\ lastA'.add.called /\ lastA'.add.result # "true")
       => /\ ledger'[lastA'.id] = ledger[lastA'.id]
          /\ ~dirty'
          /\ stored' = ledger'
          /\ lastA'.threw]_vars

\* C25: every ready (so non-virtual) device for which a device.update event
\* was delivered is eventually handled by the update handler, also when
\* update events of different devices arrive within 500 ms of each other.
C25_EveryUpdateHandled ==
  \A id \in Ids : (id \in awaiting) ~> (id \notin awaiting)

\* C26: once deleteDevice(device) has completed and no update event for the
\* device was delivered since, the device has no accessory on the bridge and
\* no ledger entry.
C26_DeletionIsFinal ==
  \A id \in deleted : id \notin bridge /\ ~has(ledger, id)

====
